---- MODULE Spec2Model ----
(***************************************************************************)
(* Model of datalogging/logger.py: the LogNode tree (data lists and child  *)
(* nodes), virtual-path splitting and traversal, and the Logger handles    *)
(* (root logger and child loggers) that read and write the tree.           *)
(*                                                                         *)
(* Strings are sequences of one-character strings; "/" is the separator.   *)
(* LogNode objects live in an arena `nodes`; a node's identity is its      *)
(* index, so two handles alias exactly when they hold the same index.      *)
(***************************************************************************)
EXTENDS Integers, Sequences, FiniteSets, TLC

VARIABLES nodes, loggers, last

vars == <<nodes, loggers, last>>

\* ------------------------------------------------------------------ bounds
MaxNodes == 3       \* LogNode objects in the arena (the root included)
MaxLoggers == 2     \* Logger handles (the root logger included)
MaxKeys == 2        \* data entries in the whole tree
MaxElems == 2       \* logged elements in the whole tree
NumVals == 1        \* distinct scalar values 1..NumVals
MaxItems == 2       \* (vpath, value) pairs in a mapping handed to log
MaxArgs == 3        \* positional arguments handed to log
MaxPathLen == 4     \* characters of a path handed to the split functions

\* ------------------------------------------------------------------ strings
Sep == "/"

\* the virtual paths handed to the operations:
\* "", "a", "b", "a/b", "b/a", "a/" (trailing separator), "/a" (leading one)
Paths ==
    {<<>>, <<"a">>, <<"b">>, <<"a", Sep, "b">>, <<"b", Sep, "a">>, <<"a", Sep>>, <<Sep, "a">>}

\* the keys those paths are made of
Keys == {<<>>, <<"a">>, <<"b">>}

HasSep(s) == \E i \in 1..Len(s) : s[i] = Sep
FirstSep(s) == CHOOSE i \in 1..Len(s) : s[i] = Sep /\ \A j \in 1..(i-1) : s[j] # Sep
LastSep(s) == CHOOSE i \in 1..Len(s) : s[i] = Sep /\ \A j \in (i+1)..Len(s) : s[j] # Sep

\* str.split('/'): always at least one segment, empty segments are kept
RECURSIVE Split(_)
Split(s) ==
    IF ~HasSep(s) THEN <<s>>
    ELSE <<SubSeq(s, 1, FirstSep(s) - 1)>> \o Split(SubSeq(s, FirstSep(s) + 1, Len(s)))

_split_vpath(vpath) ==
    IF HasSep(vpath)
    THEN <<SubSeq(vpath, 1, FirstSep(vpath) - 1), SubSeq(vpath, FirstSep(vpath) + 1, Len(vpath))>>
    ELSE <<vpath, <<>>>>

\* mutant: split in place of rsplit, the cut is made at the first separator
_rsplit_vpath_first(vpath) ==
    IF HasSep(vpath)
    THEN <<SubSeq(vpath, 1, FirstSep(vpath) - 1), SubSeq(vpath, FirstSep(vpath) + 1, Len(vpath))>>
    ELSE <<<<>>, vpath>>

_rsplit_vpath(vpath) ==
    IF HasSep(vpath)
    THEN <<SubSeq(vpath, 1, LastSep(vpath) - 1), SubSeq(vpath, LastSep(vpath) + 1, Len(vpath))>>
    ELSE <<<<>>, vpath>>

\* ------------------------------------------------------------------ values
\* A stored element is a scalar: an int n (v = <<n>>) or a str (v = its
\* characters, as codes).  A logged value is a scalar or a list of scalars.
IntVal(n) == [kind |-> "int", v |-> <<n>>, items |-> <<>>]
StrVal(cs) == [kind |-> "str", v |-> cs, items |-> <<>>]
ListVal(es) == [kind |-> "list", v |-> <<>>, items |-> es]
NoVal == [kind |-> "none", v |-> <<>>, items |-> <<>>]

Elem(val) == [kind |-> val.kind, v |-> val.v]

IntVals == {IntVal(n) : n \in 1..NumVals}
StrVals == {StrVal(<<1, 2>>)}
ListVals == {ListVal(<<>>), ListVal(<<Elem(IntVal(2)), Elem(IntVal(1))>>)}

\* isinstance(val, Iterable): a str is iterable, like a list
IsIterable(val) == val.kind \in {"str", "list"}

\* the elements iteration over val yields: a str yields its characters
Iterate(val) ==
    IF val.kind = "list" THEN val.items
    ELSE [i \in 1..Len(val.v) |-> [kind |-> "str", v |-> <<val.v[i]>>]]

list_append(lst, val) == Append(lst, Elem(val))

\* mutant: the new elements replace the list instead of being added to it
list_extend_overwrite(lst, val) == Iterate(val)

list_extend(lst, val) == lst \o Iterate(val)

\* ------------------------------------------------------------------ dicts
EmptyDict == <<>>
Put(d, k, x) == [j \in DOMAIN d \cup {k} |-> IF j = k THEN x ELSE d[j]]

\* ------------------------------------------------------------------ LogNode
LogNode == [data |-> EmptyDict, children |-> EmptyDict]

\* mutant: only the node's own data is emptied, the children are not visited
LogNode_clear_shallow(ns, n) == [ns EXCEPT ![n].data = EmptyDict]

\* mutant: the data of every node of the tree is emptied
LogNode_clear_all(ns, n) == [m \in DOMAIN ns |-> [ns[m] EXCEPT !.data = EmptyDict]]

\* mutant: the node is reset as a whole, its children mapping too
LogNode_clear_detach(ns, n) == [ns EXCEPT ![n] = LogNode]

RECURSIVE LogNode_clear(_, _), clear_children(_, _, _)
clear_children(ns, n, ks) ==
    IF ks = {} THEN ns
    ELSE LET k == CHOOSE k \in ks : TRUE
         IN clear_children(LogNode_clear(ns, ns[n].children[k]), n, ks \ {k})

LogNode_clear(ns, n) ==
    [clear_children(ns, n, DOMAIN ns[n].children) EXCEPT ![n].data = EmptyDict]

ListEntry(lst) == [kind |-> "list", list |-> lst, dict |-> EmptyDict]
DictEntry(d) == [kind |-> "dict", list |-> <<>>, dict |-> d]

\* mutant: every child's export is kept
Truthy_always(d) == TRUE

\* `if parsed:` -- an empty mapping is false
Truthy(d) == DOMAIN d # {}

RECURSIVE parse(_, _)
parse(ns, n) ==
    LET data == ns[n].data
        children == ns[n].children
        kept == {k \in DOMAIN children : Truthy(parse(ns, children[k]))}
    IN [k \in DOMAIN data \cup kept |->
            IF k \in kept THEN DictEntry(parse(ns, children[k]))
            ELSE ListEntry(data[k])]

\* ------------------------------------------------------------------ Logger
RECURSIVE contains_walk(_, _, _)
contains_walk(ns, cur, keys) ==
    IF Len(keys) = 1
    THEN Head(keys) \in DOMAIN ns[cur].children \/ Head(keys) \in DOMAIN ns[cur].data
    ELSE IF Head(keys) \notin DOMAIN ns[cur].children THEN FALSE
         ELSE contains_walk(ns, ns[cur].children[Head(keys)], Tail(keys))

__contains__(ns, root, vpath) ==
    IF vpath = <<>> THEN TRUE ELSE contains_walk(ns, root, Split(vpath))

\* mutant: children[key] = LogNode(), a new node even where one exists
RECURSIVE traverse_walk_overwrite(_, _, _)
traverse_walk_overwrite(ns, cur, keys) ==
    IF keys = <<>> THEN [ok |-> TRUE, node |-> cur, nodes |-> ns]
    ELSE LET new == Len(ns) + 1
             ns2 == Append([ns EXCEPT ![cur].children = Put(@, Head(keys), new)], LogNode)
         IN traverse_walk_overwrite(ns2, new, Tail(keys))

\* current_node = current_node.children.setdefault(key, LogNode()), per key
RECURSIVE traverse_walk(_, _, _)
traverse_walk(ns, cur, keys) ==
    IF keys = <<>> THEN [ok |-> TRUE, node |-> cur, nodes |-> ns]
    ELSE IF Head(keys) \in DOMAIN ns[cur].children
         THEN traverse_walk(ns, ns[cur].children[Head(keys)], Tail(keys))
         ELSE LET new == Len(ns) + 1
                  ns2 == Append([ns EXCEPT ![cur].children = Put(@, Head(keys), new)], LogNode)
              IN traverse_walk(ns2, new, Tail(keys))

\* ok = FALSE is the KeyError
_traverse(ns, root, vpath, create) ==
    IF vpath = <<>> THEN [ok |-> TRUE, node |-> root, nodes |-> ns]
    ELSE IF ~create /\ ~__contains__(ns, root, vpath)
         THEN [ok |-> FALSE, node |-> 0, nodes |-> ns]
         ELSE traverse_walk(ns, root, Split(vpath))

\* op is "get" (lambda lst: lst), "append" or "extend"; ok = FALSE is the
\* KeyError; list is what op returns or, for a write, the list after it
_do_data_op(ns, root, vpath, op, create, val) ==
    LET dir_path == _rsplit_vpath(vpath)[1]
        data_key == _rsplit_vpath(vpath)[2]
        t == _traverse(ns, root, dir_path, create)
    IN IF ~t.ok THEN [ok |-> FALSE, nodes |-> ns, list |-> <<>>]
       ELSE LET node_data == t.nodes[t.node].data
            IN IF ~create /\ data_key \notin DOMAIN node_data
               THEN [ok |-> FALSE, nodes |-> t.nodes, list |-> <<>>]
               ELSE LET lst == IF data_key \in DOMAIN node_data THEN node_data[data_key] ELSE <<>>
                        new == CASE op = "append" -> list_append(lst, val)
                                 [] op = "extend" -> list_extend(lst, val)
                                 [] OTHER -> lst
                    IN [ok |-> TRUE,
                        nodes |-> IF create
                                  THEN [t.nodes EXCEPT ![t.node].data = Put(@, data_key, new)]
                                  ELSE t.nodes,
                        list |-> new]

\* mutant: the read creates what it does not find
__getitem___create(ns, root, vpath) == _do_data_op(ns, root, vpath, "get", TRUE, NoVal)

__getitem__(ns, root, vpath) == _do_data_op(ns, root, vpath, "get", FALSE, NoVal)

\* mutant: no containment test first: self[vpath] is tried for every
\* path and its KeyError is turned into default
get_unguarded(ns, root, vpath) ==
    LET r == __getitem__(ns, root, vpath)
    IN IF r.ok THEN [out |-> "list", nodes |-> r.nodes, list |-> r.list]
       ELSE [out |-> "default", nodes |-> r.nodes, list |-> <<>>]

\* out is "list" (the stored list), "default" or "KeyError"
get(ns, root, vpath) ==
    IF __contains__(ns, root, vpath)
    THEN LET r == __getitem__(ns, root, vpath)
         IN IF r.ok THEN [out |-> "list", nodes |-> r.nodes, list |-> r.list]
            ELSE [out |-> "KeyError", nodes |-> r.nodes, list |-> <<>>]
    ELSE [out |-> "default", nodes |-> ns, list |-> <<>>]

\* mutant: isinstance(val, Iterable) is decided once, from the first pair
RECURSIVE log_rest_as(_, _, _, _)
log_rest_as(ns, root, items, op) ==
    IF items = <<>> THEN ns
    ELSE log_rest_as(_do_data_op(ns, root, Head(items).vpath, op, TRUE, Head(items).val).nodes,
                     root, Tail(items), op)

_log_vpaths_vals_first_rule(ns, root, items) ==
    IF items = <<>> THEN ns
    ELSE log_rest_as(ns, root, items, IF IsIterable(Head(items).val) THEN "extend" ELSE "append")

\* vpath_vals_dict is the sequence of its (vpath, val) items, in iteration
\* order; the tree after the loop
RECURSIVE _log_vpaths_vals(_, _, _)
_log_vpaths_vals(ns, root, items) ==
    IF items = <<>> THEN ns
    ELSE LET vpath == Head(items).vpath
             val == Head(items).val
             r == _do_data_op(ns, root, vpath,
                              IF IsIterable(val) THEN "extend" ELSE "append", TRUE, val)
         IN _log_vpaths_vals(r.nodes, root, Tail(items))

Item(vpath, val) == [vpath |-> vpath, val |-> val]

\* mutant: only the lower limit of the argument count is tested
log_no_upper_limit(ns, root, args) ==
    LET len_ == Len(args)
    IN IF 1 <= len_
       THEN [out |-> "ok",
             nodes |-> _log_vpaths_vals(ns, root,
                           IF len_ = 1 THEN args[1] ELSE <<Item(args[1], args[2])>>)]
       ELSE [out |-> "TypeError", nodes |-> ns]

\* args is the tuple of positional arguments: (vpath_value_map) or
\* (vpath, value); out is "ok" or "TypeError"
log(ns, root, args) ==
    LET len_ == Len(args)
    IN IF 1 <= len_ /\ len_ <= 2
       THEN [out |-> "ok",
             nodes |-> _log_vpaths_vals(ns, root,
                           IF len_ = 1 THEN args[1] ELSE <<Item(args[1], args[2])>>)]
       ELSE [out |-> "TypeError", nodes |-> ns]

\* mutant: an emptied child mapping is dropped from the tree while exporting
prune(ns, n) ==
    [ns EXCEPT ![n].children =
        [k \in {j \in DOMAIN ns[n].children : Truthy(parse(ns, ns[n].children[j]))}
            |-> ns[n].children[k]]]

as_dict_pruning(ns, root) == [nodes |-> prune(ns, root), dict |-> parse(ns, root)]

\* the tree after the call and the mapping returned
as_dict(ns, root) == [nodes |-> ns, dict |-> parse(ns, root)]

\* ------------------------------------------------------------------ state
\* nodes:   the arena of LogNode objects; nodes[1] is the first Logger's tree
\* loggers: the Logger handles made so far: the node each holds as _root and,
\*          for a child logger, the handle and vpath make_child was called with
\* last:    the call in progress: its arguments, the tree before it (pre) and
\*          what it returned; Idle between two calls
Handles == 1..Len(loggers)
Root(h) == loggers[h].root

RECURSIVE SumOver(_, _)
SumOver(f, S) ==
    IF S = {} THEN 0
    ELSE LET x == CHOOSE x \in S : TRUE IN f[x] + SumOver(f, S \ {x})

TotalKeys(ns) == SumOver([n \in 1..Len(ns) |-> Cardinality(DOMAIN ns[n].data)], 1..Len(ns))
ElemsOf(d) == SumOver([k \in DOMAIN d |-> Len(d[k])], DOMAIN d)
TotalElems(ns) == SumOver([n \in 1..Len(ns) |-> ElemsOf(ns[n].data)], 1..Len(ns))

InBounds(ns) ==
    /\ Len(ns) <= MaxNodes
    /\ TotalKeys(ns) <= MaxKeys
    /\ TotalElems(ns) <= MaxElems

Call(op, h, vpath) ==
    [op |-> op, h |-> h, vpath |-> vpath, val |-> NoVal, pre |-> nodes, out |-> "none",
     list |-> <<>>, node |-> 0, dict |-> EmptyDict, nargs |-> 0, items |-> <<>>,
     res |-> <<>>]

Idle ==
    [op |-> "idle", h |-> 0, vpath |-> <<>>, val |-> NoVal, pre |-> <<>>, out |-> "none",
     list |-> <<>>, node |-> 0, dict |-> EmptyDict, nargs |-> 0, items |-> <<>>,
     res |-> <<>>]

\* logger = Logger(): a fresh root logger on a fresh tree, no call made yet
Init ==
    /\ nodes = <<LogNode>>
    /\ loggers = <<[root |-> 1, parent |-> 0, vpath |-> <<>>]>>
    /\ last = Idle

\* logger.log(vpath, val)
Log(h, vpath, val) ==
    LET r == log(nodes, Root(h), <<vpath, val>>)
    IN /\ last = Idle
       /\ InBounds(r.nodes)
       /\ nodes' = r.nodes
       /\ last' = [Call("log", h, vpath) EXCEPT
                       !.val = val, !.out = r.out, !.nargs = 2, !.items = <<Item(vpath, val)>>]
       /\ UNCHANGED loggers

\* logger.log(vpath_value_map)
LogMap(h, items) ==
    LET r == log(nodes, Root(h), <<items>>)
    IN /\ last = Idle
       /\ InBounds(r.nodes)
       /\ nodes' = r.nodes
       /\ last' = [Call("log_map", h, <<>>) EXCEPT !.out = r.out, !.nargs = 1, !.items = items]
       /\ UNCHANGED loggers

\* logger.log() and logger.log(vpath, val, val, ...): n is not 1 or 2
LogArgs(h, n) ==
    LET args == [i \in 1..n |-> IF i = 1 THEN <<"a">> ELSE IntVal(1)]
        r == log(nodes, Root(h), args)
    IN /\ last = Idle
       /\ InBounds(r.nodes)
       /\ nodes' = r.nodes
       /\ last' = [Call("log_args", h, <<>>) EXCEPT !.out = r.out, !.nargs = n]
       /\ UNCHANGED loggers

\* child = logger.make_child(vpath)
MakeChild(h, vpath) ==
    LET t == _traverse(nodes, Root(h), vpath, TRUE)
    IN /\ last = Idle
       /\ Len(loggers) < MaxLoggers
       /\ InBounds(t.nodes)
       /\ nodes' = t.nodes
       /\ loggers' = Append(loggers, [root |-> t.node, parent |-> h, vpath |-> vpath])
       /\ last' = [Call("make_child", h, vpath) EXCEPT !.out = "ok", !.node = t.node]

\* logger.clear()
Clear(h) ==
    /\ last = Idle
    /\ nodes' = LogNode_clear(nodes, Root(h))
    /\ last' = [Call("clear", h, <<>>) EXCEPT !.out = "ok"]
    /\ UNCHANGED loggers

\* vpath in logger
Contains(h, vpath) ==
    /\ last = Idle
    /\ last' = [Call("contains", h, vpath) EXCEPT
                    !.out = IF __contains__(nodes, Root(h), vpath) THEN "True" ELSE "False"]
    /\ UNCHANGED <<nodes, loggers>>

\* logger._traverse(vpath)
Traverse(h, vpath) ==
    LET t == _traverse(nodes, Root(h), vpath, FALSE)
    IN /\ last = Idle
       /\ InBounds(t.nodes)
       /\ nodes' = t.nodes
       /\ last' = [Call("traverse", h, vpath) EXCEPT
                       !.out = IF t.ok THEN "ok" ELSE "KeyError", !.node = t.node]
       /\ UNCHANGED loggers

\* logger._traverse(vpath, create=True)
TraverseCreate(h, vpath) ==
    LET t == _traverse(nodes, Root(h), vpath, TRUE)
    IN /\ last = Idle
       /\ InBounds(t.nodes)
       /\ nodes' = t.nodes
       /\ last' = [Call("traverse_create", h, vpath) EXCEPT
                       !.out = IF t.ok THEN "ok" ELSE "KeyError", !.node = t.node]
       /\ UNCHANGED loggers

\* logger[vpath]
GetItem(h, vpath) ==
    LET r == __getitem__(nodes, Root(h), vpath)
    IN /\ last = Idle
       /\ InBounds(r.nodes)
       /\ nodes' = r.nodes
       /\ last' = [Call("getitem", h, vpath) EXCEPT
                       !.out = IF r.ok THEN "list" ELSE "KeyError", !.list = r.list]
       /\ UNCHANGED loggers

\* logger.get(vpath, default)
Get(h, vpath) ==
    LET r == get(nodes, Root(h), vpath)
    IN /\ last = Idle
       /\ InBounds(r.nodes)
       /\ nodes' = r.nodes
       /\ last' = [Call("get", h, vpath) EXCEPT !.out = r.out, !.list = r.list]
       /\ UNCHANGED loggers

\* logger.as_dict()
AsDict(h) ==
    LET r == as_dict(nodes, Root(h))
    IN /\ last = Idle
       /\ nodes' = r.nodes
       /\ last' = [Call("as_dict", h, <<>>) EXCEPT !.out = "ok", !.dict = r.dict]
       /\ UNCHANGED loggers

\* _split_vpath(vpath)
SplitVpath(vpath) ==
    /\ last = Idle
    /\ last' = [Call("_split_vpath", 0, vpath) EXCEPT !.out = "ok", !.res = _split_vpath(vpath)]
    /\ UNCHANGED <<nodes, loggers>>

\* _rsplit_vpath(vpath)
RsplitVpath(vpath) ==
    /\ last = Idle
    /\ last' = [Call("_rsplit_vpath", 0, vpath) EXCEPT !.out = "ok", !.res = _rsplit_vpath(vpath)]
    /\ UNCHANGED <<nodes, loggers>>

\* the call returns to the caller, which goes on to its next call
Return ==
    /\ last # Idle
    /\ last' = Idle
    /\ UNCHANGED <<nodes, loggers>>

Values == IntVals \cup StrVals \cup ListVals

\* the mappings handed to log: up to MaxItems pairs with distinct paths, among
\* them "a" and "/a" (one list under two paths) and "a", "a/b" (a data key and
\* a child of one name), with a scalar or a one-element list as value
MapPaths == {<<"a">>, <<Sep, "a">>, <<"a", Sep, "b">>}
MapVals == IntVals \cup {ListVal(<<Elem(IntVal(2))>>)}
MapItems == {Item(p, val) : p \in MapPaths, val \in MapVals}
RECURSIVE MapsOfLen(_)
MapsOfLen(n) ==
    IF n = 0 THEN {<<>>}
    ELSE UNION {{Append(m, x) : x \in {y \in MapItems : \A i \in DOMAIN m : m[i].vpath # y.vpath}}
                    : m \in MapsOfLen(n - 1)}
Maps == UNION {MapsOfLen(n) : n \in 0..MaxItems}

\* the argument counts log refuses
BadArgCounts == (0..MaxArgs) \ {1, 2}

Next ==
    \/ \E h \in Handles, p \in Paths, val \in Values : Log(h, p, val)
    \/ \E h \in Handles, m \in Maps : LogMap(h, m)
    \/ \E h \in Handles, n \in BadArgCounts : LogArgs(h, n)
    \/ \E h \in Handles, p \in Paths : TraverseCreate(h, p)
    \/ \E h \in Handles, p \in Paths : MakeChild(h, p)
    \/ \E h \in Handles : Clear(h)
    \/ \E h \in Handles, p \in Paths : Contains(h, p)
    \/ \E h \in Handles, p \in Paths : Traverse(h, p)
    \/ \E h \in Handles, p \in Paths : GetItem(h, p)
    \/ \E h \in Handles, p \in Paths : Get(h, p)
    \/ \E h \in Handles : AsDict(h)
    \/ Return

Spec == Init /\ [][Next]_vars

\* a fresh logger that is only logged to and exported, with paths that have
\* no empty segment and values that are no strings
PlainPaths == {p \in Paths : \A k \in {Split(p)[i] : i \in 1..Len(Split(p))} : k # <<>>}

NextLogOnly ==
    \/ \E p \in PlainPaths, val \in IntVals \cup ListVals : Log(1, p, val)
    \/ AsDict(1)
    \/ Return

SpecLogOnly == Init /\ [][NextLogOnly]_vars

\* the split functions alone, applied to every string of up to MaxPathLen
\* characters over "a", "b" and the separator
Chars == {"a", "b", Sep}
SplitPaths == UNION {[1..n -> Chars] : n \in 0..MaxPathLen}

NextSplit ==
    \/ \E p \in SplitPaths : SplitVpath(p)
    \/ \E p \in SplitPaths : RsplitVpath(p)
    \/ Return

SpecSplit == Init /\ [][NextSplit]_vars

\* ------------------------------------------------------------------ claims
\* What a path names in a tree, read off the tree itself: the keys of its
\* directory part lead through children only, the last key is looked up in data.
AllButLast(s) == SubSeq(s, 1, Len(s) - 1)
Last(s) == s[Len(s)]

RECURSIVE Resolve(_, _, _)
Resolve(ns, n, keys) ==
    IF keys = <<>> THEN n
    ELSE IF Head(keys) \in DOMAIN ns[n].children
         THEN Resolve(ns, ns[n].children[Head(keys)], Tail(keys))
         ELSE 0

\* The directory part of a path is what precedes its last separator; an empty
\* directory part is the logger's own root.
DirNode(ns, root, vpath) ==
    LET dir == AllButLast(Split(vpath))
    IN IF dir = <<>> \/ dir = << <<>> >> THEN root ELSE Resolve(ns, root, dir)
NamesData(ns, root, vpath) ==
    /\ DirNode(ns, root, vpath) # 0
    /\ Last(Split(vpath)) \in DOMAIN ns[DirNode(ns, root, vpath)].data
Stored(ns, root, vpath) ==
    IF NamesData(ns, root, vpath)
    THEN ns[DirNode(ns, root, vpath)].data[Last(Split(vpath))]
    ELSE <<>>

\* n and every node below it
RECURSIVE Desc(_, _)
Desc(ns, n) == {n} \cup UNION {Desc(ns, ns[n].children[k]) : k \in DOMAIN ns[n].children}

HasData(ns, n) == \E m \in Desc(ns, n) : DOMAIN ns[m].data # {}

\* the entry an export holds at the end of a key sequence, if any
NoEntry == [kind |-> "none", list |-> <<>>, dict |-> EmptyDict]

RECURSIVE Lookup(_, _)
Lookup(d, keys) ==
    IF Head(keys) \notin DOMAIN d THEN NoEntry
    ELSE IF Len(keys) = 1 THEN d[Head(keys)]
    ELSE IF d[Head(keys)].kind # "dict" THEN NoEntry
    ELSE Lookup(d[Head(keys)].dict, Tail(keys))

\* the key sequences of an export that end at a list
RECURSIVE Leaves(_)
Leaves(d) ==
    UNION {IF d[k].kind = "list" THEN {<<k>>}
           ELSE {<<k>> \o ks : ks \in Leaves(d[k].dict)} : k \in DOMAIN d}

\* C1: get(path, default) never raises a key-not-found error: it returns the
\* stored list when the path names a data entry and default otherwise, for
\* every path, the empty path and a path naming only a child node included.
C1_GetNeverFails ==
    last.op = "get" =>
        /\ last.out # "KeyError"
        /\ IF NamesData(last.pre, Root(last.h), last.vpath)
           THEN last.out = "list" /\ last.list = Stored(last.pre, Root(last.h), last.vpath)
           ELSE last.out = "default"

\* C2: traverse(path, create=false), and so a direct read logger[path], leaves
\* the children and data of every node unchanged and adds no node, whether it
\* succeeds or fails.
C2_NoCreateTraversalFrame ==
    last.op \in {"traverse", "getitem"} => nodes = last.pre

\* C3: log(path, value) with a string value grows the list at path by exactly
\* one element, the whole string.
C3_StringLoggedWhole ==
    (last.op = "log" /\ last.val.kind = "str") =>
        Stored(nodes, Root(last.h), last.vpath)
            = Stored(last.pre, Root(last.h), last.vpath) \o <<Elem(last.val)>>

\* C4: with L the prior content of the list at p (empty if absent), log(p, x)
\* with a non-iterable scalar x makes get(p) = L + [x], and log(p, [x1..xn])
\* makes get(p) = L + [x1..xn], in the given order.
C4_AppendVsExtend ==
    (last.op = "log" /\ last.val.kind \in {"int", "list"}) =>
        LET L == Stored(last.pre, Root(last.h), last.vpath)
            g == get(nodes, Root(last.h), last.vpath)
        IN /\ g.out = "list"
           /\ g.list = L \o (IF last.val.kind = "int" THEN <<Elem(last.val)>> ELSE last.val.items)

\* C5: a child logger made at a non-empty path p holds the node that
\* traversing p from its parent's root reaches, and for every key k
\* child.get(k) and parent.get(p + "/" + k) give the same result.
C5_Aliasing ==
    \A c \in Handles :
        (loggers[c].parent # 0 /\ loggers[c].vpath # <<>>) =>
            LET P == Root(loggers[c].parent)
                p == loggers[c].vpath
            IN /\ _traverse(nodes, P, p, FALSE) = [ok |-> TRUE, node |-> Root(c), nodes |-> nodes]
               /\ \A k \in Keys :
                      LET a == get(nodes, Root(c), k)
                          b == get(nodes, P, p \o <<Sep>> \o k)
                      IN a.out = b.out /\ a.list = b.list

\* What does hold of the two handles: the child's root is the node p leads to,
\* one get yields a list exactly when the other does, and then the same list;
\* the results differ only for the key "", where child.get raises the
\* KeyError of C1 and the parent's get returns default.
C5_ListsAliased ==
    \A c \in Handles :
        (loggers[c].parent # 0 /\ loggers[c].vpath # <<>>) =>
            LET P == Root(loggers[c].parent)
                p == loggers[c].vpath
            IN /\ _traverse(nodes, P, p, FALSE) = [ok |-> TRUE, node |-> Root(c), nodes |-> nodes]
               /\ \A k \in Keys :
                      LET a == get(nodes, Root(c), k)
                          b == get(nodes, P, p \o <<Sep>> \o k)
                      IN /\ (a.out = "list") <=> (b.out = "list")
                         /\ a.out = "list" => a.list = b.list
                         /\ (a.out # b.out) =>
                                (k = <<>> /\ a.out = "KeyError" /\ b.out = "default")

\* C6: on a fresh logger that was only logged to, as_dict() leads from every
\* logged path, key by key, to the list logged at that path, and holds no
\* other list.  (The paths of SpecLogOnly have no empty segment, so the data
\* entries of the tree are exactly the logged paths.)
C6_RoundTrip ==
    last.op = "as_dict" =>
        /\ \A p \in PlainPaths :
               NamesData(nodes, 1, p) =>
                   Lookup(last.dict, Split(p)) = ListEntry(Stored(nodes, 1, p))
        /\ \A ks \in Leaves(last.dict) :
               \E p \in PlainPaths : NamesData(nodes, 1, p) /\ Split(p) = ks

\* C7: at every node the export holds a nested mapping under a child's key
\* exactly when that child or one of its descendants has a data key.
C7_Pruning ==
    /\ \A n \in 1..Len(nodes) : \A k \in DOMAIN nodes[n].children :
           (k \in DOMAIN parse(nodes, n) /\ parse(nodes, n)[k].kind = "dict")
               <=> HasData(nodes, nodes[n].children[k])
    /\ last.op = "as_dict" =>
           \A k \in DOMAIN nodes[Root(last.h)].children :
               (k \in DOMAIN last.dict /\ last.dict[k].kind = "dict")
                   <=> HasData(nodes, nodes[Root(last.h)].children[k])

\* an export through the root that left out a child logger's empty node and
\* kept the subtree of another child
C7_Witness ==
    /\ last.op = "as_dict"
    /\ \E k \in DOMAIN nodes[Root(last.h)].children :
           /\ ~HasData(nodes, nodes[Root(last.h)].children[k])
           /\ k \notin DOMAIN last.dict
           /\ \E c \in Handles : Root(c) = nodes[Root(last.h)].children[k]
    /\ \E k \in DOMAIN last.dict : last.dict[k].kind = "dict"

\* C8: clear() empties the data of the logger's root and of every descendant,
\* leaves every children mapping as it was, and afterwards every child logger
\* into that subtree exports an empty mapping.
C8_ClearEmptiesSubtree ==
    last.op = "clear" =>
        /\ Len(nodes) = Len(last.pre)
        /\ \A n \in 1..Len(nodes) : nodes[n].children = last.pre[n].children
        /\ \A n \in Desc(last.pre, Root(last.h)) : nodes[n].data = EmptyDict
        /\ \A c \in Handles :
               Root(c) \in Desc(last.pre, Root(last.h)) => parse(nodes, Root(c)) = EmptyDict

\* a clear through the parent that wiped the data a child logger exported
C8_Witness ==
    /\ last.op = "clear"
    /\ \E c \in Handles :
           /\ Root(c) # Root(last.h)
           /\ Root(c) \in Desc(last.pre, Root(last.h))
           /\ parse(last.pre, Root(c)) # EmptyDict

\* C9: clear() on a child logger leaves the data of every node outside the
\* child's subtree exactly as it was.
C9_ChildClearFrame ==
    last.op = "clear" =>
        \A n \in 1..Len(nodes) :
            n \notin Desc(last.pre, Root(last.h)) => nodes[n].data = last.pre[n].data

\* a child logger's clear that wiped its own data while a node outside held some
C9_Witness ==
    /\ last.op = "clear"
    /\ loggers[last.h].parent # 0
    /\ HasData(last.pre, Root(last.h))
    /\ \E n \in 1..Len(nodes) :
           n \notin Desc(last.pre, Root(last.h)) /\ DOMAIN last.pre[n].data # {}

\* C10: logger[path] returns the stored list when the directory part exists
\* and the final segment is a data key of its node, and fails with a
\* key-not-found error otherwise.
C10_GetItem ==
    last.op = "getitem" =>
        IF NamesData(last.pre, Root(last.h), last.vpath)
        THEN last.out = "list" /\ last.list = Stored(last.pre, Root(last.h), last.vpath)
        ELSE last.out = "KeyError"

\* a direct read of a path that names only a child node failed
C10_Witness ==
    /\ last.op = "getitem"
    /\ last.out = "KeyError"
    /\ last.vpath # <<>>
    /\ ~HasSep(last.vpath)
    /\ last.vpath \in DOMAIN last.pre[Root(last.h)].children

\* the node the all-but-last segments of a path lead to through children, 0
\* when one of them is missing
WalkNode(ns, root, vpath) == Resolve(ns, root, AllButLast(Split(vpath)))

Present(ns, root, vpath) ==
    \/ vpath = <<>>
    \/ /\ WalkNode(ns, root, vpath) # 0
       /\ Last(Split(vpath)) \in DOMAIN ns[WalkNode(ns, root, vpath)].children
                                    \cup DOMAIN ns[WalkNode(ns, root, vpath)].data

\* one of the all-but-last segments is, at the node reached so far, a data key
\* and not a child
ThroughData(ns, root, vpath) ==
    \E i \in 1..(Len(Split(vpath)) - 1) :
        LET n == Resolve(ns, root, SubSeq(Split(vpath), 1, i - 1))
        IN /\ n # 0
           /\ Split(vpath)[i] \in DOMAIN ns[n].data
           /\ Split(vpath)[i] \notin DOMAIN ns[n].children

LogOps == {"log", "log_map", "log_args"}

\* C11: contains(path) is true exactly when the path is empty, or every
\* all-but-last segment names an existing child along the walk from the root
\* and the last segment is a key of children or data at the node reached; so
\* after log(p, v) or make_child(p) the path p is contained, and a path that
\* descends through a data key is not contained.
C11_Contains ==
    /\ last.op = "contains" =>
           /\ (last.out = "True") <=> Present(last.pre, Root(last.h), last.vpath)
           /\ ThroughData(last.pre, Root(last.h), last.vpath) => last.out = "False"
    /\ last.op \in {"log", "log_map"} =>
           \A i \in DOMAIN last.items : __contains__(nodes, Root(last.h), last.items[i].vpath)
    /\ last.op = "make_child" => __contains__(nodes, Root(last.h), last.vpath)

\* What does hold: the characterisation of contains, and p is contained after
\* make_child(p) and after log(p, v) for every p that does not begin with the
\* separator.
C11_ContainsWalk ==
    /\ last.op = "contains" =>
           /\ (last.out = "True") <=> Present(last.pre, Root(last.h), last.vpath)
           /\ ThroughData(last.pre, Root(last.h), last.vpath) => last.out = "False"
    /\ last.op \in {"log", "log_map"} =>
           \A i \in DOMAIN last.items :
               (last.items[i].vpath = <<>> \/ Head(last.items[i].vpath) # Sep)
                   => __contains__(nodes, Root(last.h), last.items[i].vpath)
    /\ last.op = "make_child" => __contains__(nodes, Root(last.h), last.vpath)

\* C12: log() with zero or with more than two positional arguments fails with
\* the usage error and leaves the tree unchanged; with one or two arguments
\* it does not raise the usage error.
C12_LogUsageError ==
    last.op \in LogOps =>
        IF last.nargs \in {1, 2}
        THEN last.out # "TypeError"
        ELSE last.out = "TypeError" /\ nodes = last.pre

\* a log call with three arguments was refused on a tree that holds data
C12_Witness ==
    /\ last.op \in LogOps
    /\ last.nargs = 3
    /\ last.out = "TypeError"
    /\ HasData(nodes, Root(last.h))

\* C13: as_dict() is a pure read: it leaves the children and data of every
\* node unchanged, and a second call right after it returns an equal mapping.
C13_AsDictPure ==
    last.op = "as_dict" =>
        /\ nodes = last.pre
        /\ as_dict(nodes, Root(last.h)).dict = last.dict

\* an export that held data and passed over an empty child node
C13_Witness ==
    /\ last.op = "as_dict"
    /\ last.dict # EmptyDict
    /\ \E k \in DOMAIN nodes[Root(last.h)].children :
           ~HasData(nodes, nodes[Root(last.h)].children[k])

\* log(p1, v1); ...; log(pn, vn), one two-argument call per pair
RECURSIVE OneByOne(_, _, _)
OneByOne(ns, root, items) ==
    IF items = <<>> THEN ns
    ELSE OneByOne(log(ns, root, <<Head(items).vpath, Head(items).val>>).nodes, root, Tail(items))

\* C14: log({p1: v1, ..., pn: vn}) leaves the tree in the state that
\* log(p1, v1); ...; log(pn, vn), issued in the mapping's iteration order,
\* leaves it in, and log(p, v) leaves it in the state of log({p: v}).
C14_BulkIsSequential ==
    /\ last.op = "log_map" => nodes = OneByOne(last.pre, Root(last.h), last.items)
    /\ last.op = "log" => nodes = log(last.pre, Root(last.h), <<last.items>>).nodes

\* a mapping of a scalar and a list, both stored in one list that held an
\* element before: the scalar was appended first, then the list's element
C14_Witness ==
    /\ last.op = "log_map"
    /\ Len(last.items) = 2
    /\ last.items[1].val.kind = "int"
    /\ last.items[2].val.kind = "list"
    /\ DirNode(nodes, Root(last.h), last.items[1].vpath)
           = DirNode(nodes, Root(last.h), last.items[2].vpath)
    /\ Last(Split(last.items[1].vpath)) = Last(Split(last.items[2].vpath))
    /\ Stored(nodes, Root(last.h), last.items[1].vpath)
           = <<Elem(last.items[1].val)>> \o last.items[2].val.items

\* C15: _split_vpath and _rsplit_vpath return exactly two strings; a path p
\* with no separator gives (p, "") and ("", p); for a path with a separator
\* first + "/" + second = p, where _split_vpath's first and _rsplit_vpath's
\* second hold no separator.
C15_SplitLosesNothing ==
    last.op \in {"_split_vpath", "_rsplit_vpath"} =>
        LET p == last.vpath
        IN /\ Len(last.res) = 2
           /\ IF \A i \in 1..Len(p) : p[i] # Sep
              THEN last.res = IF last.op = "_split_vpath" THEN <<p, <<>>>> ELSE <<<<>>, p>>
              ELSE /\ last.res[1] \o <<Sep>> \o last.res[2] = p
                   /\ last.op = "_split_vpath" =>
                          \A i \in 1..Len(last.res[1]) : last.res[1][i] # Sep
                   /\ last.op = "_rsplit_vpath" =>
                          \A i \in 1..Len(last.res[2]) : last.res[2][i] # Sep

\* a path with two separators was cut at its last one
C15_Witness ==
    /\ last.op = "_rsplit_vpath"
    /\ \E i \in 1..Len(last.res[1]) : last.res[1][i] = Sep
    /\ last.res[2] # <<>>

\* C16: traverse(path, create=false) on a non-empty path returns a node only
\* if every segment, the last included, is a child of the node reached so
\* far, and fails with the not-found error when a segment is no child.
C16_TraverseNeedsChildren ==
    (last.op = "traverse" /\ last.vpath # <<>>) =>
        IF Resolve(last.pre, Root(last.h), Split(last.vpath)) # 0
        THEN last.out = "ok" =>
                 last.node = Resolve(last.pre, Root(last.h), Split(last.vpath))
        ELSE last.out = "KeyError"

\* every node and child entry of the tree `pre` is still there in `post`, each
\* child key bound to the node it was bound to, each data key to a list that
\* begins with the list it held
Preserved(pre, post) ==
    /\ Len(post) >= Len(pre)
    /\ \A n \in 1..Len(pre) :
           /\ \A k \in DOMAIN pre[n].children :
                  k \in DOMAIN post[n].children /\ post[n].children[k] = pre[n].children[k]
           /\ \A k \in DOMAIN pre[n].data :
                  /\ k \in DOMAIN post[n].data
                  /\ Len(post[n].data[k]) >= Len(pre[n].data[k])
                  /\ SubSeq(post[n].data[k], 1, Len(pre[n].data[k])) = pre[n].data[k]

\* the node a whole path leads to through children ("" is the root itself)
PathNode(ns, root, vpath) == IF vpath = <<>> THEN root ELSE Resolve(ns, root, Split(vpath))

\* the keys _do_data_op traverses for a path: those of its directory part
DirKeys(vpath) ==
    IF AllButLast(Split(vpath)) = << <<>> >> THEN <<>> ELSE AllButLast(Split(vpath))

\* C17: traverse(p, create=true) never fails, creates every missing node and
\* returns the node p leads to; calling it again, directly, through
\* make_child(p) or through a log under p, reaches the identical node and
\* replaces no node: the children and data stored before are preserved.
C17_IdempotentCreation ==
    /\ last.op \in {"traverse_create", "make_child"} =>
           /\ last.out = "ok"
           /\ last.node # 0
           /\ last.node = PathNode(nodes, Root(last.h), last.vpath)
           /\ PathNode(last.pre, Root(last.h), last.vpath) # 0 =>
                  /\ last.node = PathNode(last.pre, Root(last.h), last.vpath)
                  /\ nodes = last.pre
           /\ _traverse(nodes, Root(last.h), last.vpath, TRUE)
                  = [ok |-> TRUE, node |-> last.node, nodes |-> nodes]
           /\ Preserved(last.pre, nodes)
           /\ \A n \in 1..Len(last.pre) : nodes[n].data = last.pre[n].data
    /\ last.op \in {"log", "log_map"} =>
           /\ Preserved(last.pre, nodes)
           /\ \A i \in DOMAIN last.items :
                  LET dir == DirKeys(last.items[i].vpath)
                  IN /\ Resolve(nodes, Root(last.h), dir) # 0
                     /\ Resolve(last.pre, Root(last.h), dir) # 0 =>
                            Resolve(nodes, Root(last.h), dir) = Resolve(last.pre, Root(last.h), dir)

\* a second creating call for a path whose node existed and held data below it
C17_Witness ==
    /\ last.op \in {"traverse_create", "make_child"}
    /\ last.vpath # <<>>
    /\ PathNode(last.pre, Root(last.h), last.vpath) # 0
    /\ HasData(last.pre, last.node)

\* the nodes below the nodes of S, i levels deep at most
ChildrenOf(ns, S) == UNION {{ns[n].children[k] : k \in DOMAIN ns[n].children} : n \in S}

RECURSIVE ReachFrom(_, _, _)
ReachFrom(ns, S, i) == IF i = 0 THEN S ELSE ReachFrom(ns, S \cup ChildrenOf(ns, S), i - 1)

\* C18: in every reachable state no node appears under two parents or under
\* two keys, there are no cycles, and every logger's root is a node of the
\* one tree owned by the original root.
C18_TreeShape ==
    /\ \A n, m \in 1..Len(nodes) :
           \A k \in DOMAIN nodes[n].children, j \in DOMAIN nodes[m].children :
               nodes[n].children[k] = nodes[m].children[j] => (n = m /\ k = j)
    /\ \A n \in 1..Len(nodes) : n \notin ReachFrom(nodes, ChildrenOf(nodes, {n}), Len(nodes))
    /\ \A h \in Handles : Root(h) \in ReachFrom(nodes, {1}, Len(nodes))

\* a tree two levels deep below the root, with a child logger holding data
C18_Witness ==
    /\ \E n \in ChildrenOf(nodes, {1}) : ChildrenOf(nodes, {n}) # {}
    /\ \E h \in Handles : Root(h) # 1 /\ HasData(nodes, Root(h))

\* the (node, data key) a logged path stores into
Target(ns, root, vpath) == <<Resolve(ns, root, DirKeys(vpath)), Last(Split(vpath))>>

\* the nodes on the way from root along keys
OnTheWay(ns, root, keys) == {Resolve(ns, root, SubSeq(keys, 1, i)) : i \in 0..Len(keys)}

\* C19: log(p, v) changes only the list bound to p's data key at p's
\* directory node and adds only the nodes missing along p's directory path;
\* the list at every other (node, data key) is unchanged, and get(q) gives the
\* same result before and after for every path q that names another list.
C19_LogFrame ==
    last.op = "log" =>
        LET root == Root(last.h)
            t == Target(nodes, root, last.vpath)
        IN /\ Preserved(last.pre, nodes)
           /\ \A n \in (Len(last.pre) + 1)..Len(nodes) :
                  n \in OnTheWay(nodes, root, DirKeys(last.vpath))
           /\ \A n \in 1..Len(nodes) : \A k \in DOMAIN nodes[n].data :
                  <<n, k>> # t =>
                      /\ n <= Len(last.pre)
                      /\ k \in DOMAIN last.pre[n].data
                      /\ nodes[n].data[k] = last.pre[n].data[k]
           /\ \A q \in Paths :
                  Target(nodes, root, q) # t =>
                      /\ get(nodes, root, q).out = get(last.pre, root, q).out
                      /\ get(nodes, root, q).list = get(last.pre, root, q).list

\* What does hold: the frame on the tree itself, and on get wherever get
\* does not end in the KeyError of C1.
C19_ListsFrame ==
    last.op = "log" =>
        LET root == Root(last.h)
            t == Target(nodes, root, last.vpath)
        IN /\ Preserved(last.pre, nodes)
           /\ \A n \in (Len(last.pre) + 1)..Len(nodes) :
                  n \in OnTheWay(nodes, root, DirKeys(last.vpath))
           /\ \A n \in 1..Len(nodes) : \A k \in DOMAIN nodes[n].data :
                  <<n, k>> # t =>
                      /\ n <= Len(last.pre)
                      /\ k \in DOMAIN last.pre[n].data
                      /\ nodes[n].data[k] = last.pre[n].data[k]
           /\ \A q \in Paths :
                  (Target(nodes, root, q) # t /\ get(nodes, root, q).out # "KeyError") =>
                      /\ get(nodes, root, q).out = get(last.pre, root, q).out
                      /\ get(nodes, root, q).list = get(last.pre, root, q).list

\* C20: contains(path) and get(path, default) are pure reads: whatever they
\* return, the children and data of every node are as before the call.
C20_ReadsArePure ==
    last.op \in {"contains", "get"} => nodes = last.pre

\* a get of a path that descends through a data key returned default
C20_Witness ==
    /\ last.op = "get"
    /\ last.out = "default"
    /\ ThroughData(last.pre, Root(last.h), last.vpath)

====
